---- MODULE Spec2Model ----
(***************************************************************************)
(* Model of the invoice pipeline of accounting_web:                        *)
(*   server/pipeline/route.py   ProcessingPipeline (job table, stages)     *)
(*   server/rules/engine.py     RulesEngine.validate_invoice               *)
(*   server/llm/fallback.py     LLMFallback (repair gateway)               *)
(*   server/audit/logs.py       AuditLogger (append-only log)              *)
(*   server/schemas/invoice.py  the typed records                          *)
(*                                                                         *)
(* The specifications share the variables and the stage actions:           *)
(*   Spec         the program from POST /ingest on: jobs are created,      *)
(*                their tasks run OCR and what follows.                    *)
(*   SpecStages   the stages of _process_invoice_async run from a job at   *)
(*                the start of extraction (route.py 66-75) and from a job  *)
(*                at the decision (route.py 95-147) on every invoice of a  *)
(*                bounded set with the rule report validate_invoice gives  *)
(*                for it.                                                  *)
(*   SpecCategory _check_category_confidence on bounded line-item lists.   *)
(*   SpecVendor   the layout fingerprint and _extract_vendor on bounded    *)
(*                token lists, one call after the other.                   *)
(*                                                                         *)
(* Numbers.  Confidences are percentages (0.82 is 82).  A Decimal is the   *)
(* pair (n, dp) standing for n / 10^dp, so that the number of decimal      *)
(* places the rounding rule counts is kept.  Dates are day numbers.        *)
(***************************************************************************)
EXTENDS Integers, Sequences, FiniteSets, TLC

(***************************************************************************)
(* Bounds of the model.                                                    *)
(***************************************************************************)
MaxJobs == 2
MaxPatches == 2
MaxLineItems == 1
MaxClock == 1

(***************************************************************************)
(* ProcessingThresholds defaults (schemas/invoice.py 222-225).             *)
(***************************************************************************)
field_confidence_threshold == 82
category_confidence_threshold == 75
arithmetic_tolerance_pct == 2
rounding_decimal_places == 2

\* The amounts of the model carry at most one decimal place more than the
\* rounding policy allows.
MaxDp == rounding_decimal_places + 1

(***************************************************************************)
(* Values held by FieldValue.value: None, a number (Decimal, int, float),  *)
(* a non-numeric string, a date object.                                    *)
(***************************************************************************)
Null == [k |-> "null", n |-> 0, dp |-> 0, s |-> ""]
Num(n, dp) == [k |-> "num", n |-> n, dp |-> dp, s |-> ""]
Str(s) == [k |-> "str", n |-> 0, dp |-> 0, s |-> s]
Date(d) == [k |-> "date", n |-> d, dp |-> 0, s |-> ""]

\* Python truthiness of a value: None, 0 and "" are false.
Truthy(v) ==
    CASE v.k = "null" -> FALSE
      [] v.k = "num" -> v.n # 0
      [] v.k = "str" -> v.s # ""
      [] OTHER -> TRUE

\* Decimal(str(v)) succeeds for numbers only; None, text and dates raise.
DecimalOk(v) == v.k = "num"

RECURSIVE Pow10(_)
Pow10(e) == IF e <= 0 THEN 1 ELSE 10 * Pow10(e - 1)

\* The number as an integer count of 10^-MaxDp units.
Scaled(v) == v.n * Pow10(MaxDp - v.dp)

Abs(x) == IF x < 0 THEN -x ELSE x

\* relative error |a - e| / |e| > arithmetic_tolerance, in integers.
ExceedsTolerance(a, e) == 100 * Abs(a - e) > arithmetic_tolerance_pct * Abs(e)

(***************************************************************************)
(* FieldValue; an Optional[FieldValue] that is None has present = FALSE.   *)
(* evidence is the length of the evidence list.                            *)
(***************************************************************************)
FV(v, c) == [present |-> TRUE, value |-> v, confidence |-> c, evidence |-> 1]
NoField == [present |-> FALSE, value |-> Null, confidence |-> 0, evidence |-> 0]

\* "field and field.value": the field is there and its value is truthy.
HasValue(f) == f.present /\ Truthy(f.value)

\* "field and field.value is not None"
HasNonNull(f) == f.present /\ f.value.k # "null"

\* A rule failure: the rule name and the JSON-Pointer path.
Failure(r, p) == [rule |-> r, path |-> p]

(***************************************************************************)
(* RulesEngine._validate_arithmetic.  Any Decimal conversion that raises   *)
(* is caught and reported as arithmetic_balance at /amounts.               *)
(***************************************************************************)
ArithOperands(inv) == <<inv.amounts.subtotal, inv.amounts.tax_amount,
                        inv.amounts.shipping, inv.amounts.discount>>

ArithRaises(inv) ==
    \/ ~DecimalOk(inv.amounts.grand_total.value)
    \/ \E i \in 1..4 : HasValue(ArithOperands(inv)[i])
                       /\ ~DecimalOk(ArithOperands(inv)[i].value)

Term(f) == IF HasValue(f) THEN Scaled(f.value) ELSE 0

expected_total(inv) ==
    (IF HasValue(inv.amounts.subtotal)
        THEN Scaled(inv.amounts.subtotal.value)
        ELSE Scaled(inv.amounts.grand_total.value))
    + Term(inv.amounts.tax_amount) + Term(inv.amounts.shipping)
    - Term(inv.amounts.discount)

validate_arithmetic(inv) ==
    IF ArithRaises(inv) THEN <<Failure("arithmetic_balance", "/amounts")>>
    ELSE IF expected_total(inv) # 0
            /\ ExceedsTolerance(Scaled(inv.amounts.grand_total.value),
                                expected_total(inv))
         THEN <<Failure("arithmetic_balance", "/amounts/grand_total")>>
         ELSE <<>>

(***************************************************************************)
(* RulesEngine._validate_line_sum.  Products qty * unit_price carry twice  *)
(* the scale, so the invoice totals are raised to it before comparing.     *)
(***************************************************************************)
LinePriced(li) == HasValue(li.quantity) /\ HasValue(li.unit_price)

LineSumRaises(inv) ==
    \/ \E i \in 1..Len(inv.line_items) :
          \/ LinePriced(inv.line_items[i])
             /\ (~DecimalOk(inv.line_items[i].quantity.value)
                 \/ ~DecimalOk(inv.line_items[i].unit_price.value))
          \/ HasValue(inv.line_items[i].tax_amount)
             /\ ~DecimalOk(inv.line_items[i].tax_amount.value)
    \/ HasValue(inv.amounts.subtotal) /\ ~DecimalOk(inv.amounts.subtotal.value)
    \/ HasValue(inv.amounts.tax_amount) /\ ~DecimalOk(inv.amounts.tax_amount.value)

RECURSIVE line_total(_)
line_total(items) ==
    IF items = <<>> THEN 0
    ELSE (IF LinePriced(Head(items))
             THEN Scaled(Head(items).quantity.value)
                  * Scaled(Head(items).unit_price.value)
             ELSE 0) + line_total(Tail(items))

RECURSIVE line_tax_total(_)
line_tax_total(items) ==
    IF items = <<>> THEN 0
    ELSE Term(Head(items).tax_amount) + line_tax_total(Tail(items))

validate_line_sum(inv) ==
    IF LineSumRaises(inv) THEN <<Failure("line_sum", "/line_items")>>
    ELSE (IF Term(inv.amounts.subtotal) # 0
             /\ ExceedsTolerance(line_total(inv.line_items),
                                 Term(inv.amounts.subtotal) * Pow10(MaxDp))
          THEN <<Failure("line_sum_subtotal", "/amounts/subtotal")>>
          ELSE <<>>)
      \o (IF Term(inv.amounts.tax_amount) # 0
             /\ ExceedsTolerance(line_tax_total(inv.line_items),
                                 Term(inv.amounts.tax_amount))
          THEN <<Failure("line_sum_tax", "/amounts/tax_amount")>>
          ELSE <<>>)

(***************************************************************************)
(* RulesEngine._validate_dates.                                            *)
(***************************************************************************)
IsDate(v) == v.k = "date"

validate_dates(inv) ==
    (IF ~Truthy(inv.invoice_date.value)
        THEN <<Failure("required_date", "/invoice_date")>>
     ELSE IF ~IsDate(inv.invoice_date.value)
        THEN <<Failure("date_format", "/invoice_date")>>
     ELSE <<>>)
    \o (IF HasValue(inv.due_date)
        THEN IF ~IsDate(inv.due_date.value)
                THEN <<Failure("date_format", "/due_date")>>
             ELSE IF IsDate(inv.invoice_date.value)
                     /\ inv.due_date.value.n < inv.invoice_date.value.n
                THEN <<Failure("date_logic", "/due_date")>>
             ELSE <<>>
        ELSE <<>>)

(***************************************************************************)
(* RulesEngine._validate_currency: the code check, then the sign of the    *)
(* five amounts in the order the code lists them.                          *)
(***************************************************************************)
CurrencyCodes == {"EUR", "USD", "GBP", "JPY", "SAR", "AED", "EGP", "QAR", "KWD", "BHD"}

AmountField(inv, name) ==
    CASE name = "grand_total" -> inv.amounts.grand_total
      [] name = "subtotal" -> inv.amounts.subtotal
      [] name = "tax_amount" -> inv.amounts.tax_amount
      [] name = "discount" -> inv.amounts.discount
      [] name = "shipping" -> inv.amounts.shipping

AmountPath(name) ==
    CASE name = "grand_total" -> "/amounts/grand_total"
      [] name = "subtotal" -> "/amounts/subtotal"
      [] name = "tax_amount" -> "/amounts/tax_amount"
      [] name = "discount" -> "/amounts/discount"
      [] name = "shipping" -> "/amounts/shipping"

SignFailure(inv, name) ==
    IF ~HasNonNull(AmountField(inv, name)) THEN <<>>
    ELSE IF ~DecimalOk(AmountField(inv, name).value)
        THEN <<Failure("amount_format", AmountPath(name))>>
    ELSE IF AmountField(inv, name).value.n < 0
        THEN <<Failure("non_negative_amount", AmountPath(name))>>
    ELSE <<>>

validate_currency(inv) ==
    (IF ~Truthy(inv.amounts.currency.value)
        THEN <<Failure("required_currency", "/amounts/currency")>>
     ELSE IF ~(inv.amounts.currency.value.k = "str"
               /\ inv.amounts.currency.value.s \in CurrencyCodes)
        THEN <<Failure("currency_format", "/amounts/currency")>>
     ELSE <<>>)
    \o SignFailure(inv, "grand_total") \o SignFailure(inv, "subtotal")
    \o SignFailure(inv, "tax_amount") \o SignFailure(inv, "discount")
    \o SignFailure(inv, "shipping")

(***************************************************************************)
(* RulesEngine._validate_duplicate_hash: the hash must be set.  The hash   *)
(* is modelled by the tuple it digests; NoHash is the missing hash.        *)
(***************************************************************************)
NoHash == <<>>

validate_duplicate_hash(inv) ==
    IF inv.duplicate_hash = NoHash
        THEN <<Failure("duplicate_hash", "/duplicate_hash")>>
        ELSE <<>>

(***************************************************************************)
(* RulesEngine._validate_tax_coherence: tax_amount against                 *)
(* subtotal * tax_rate / 100, compared after cross-multiplication.         *)
(***************************************************************************)
TaxCoherenceApplies(inv) ==
    HasValue(inv.amounts.tax_rate) /\ HasValue(inv.amounts.tax_amount)

TaxCoherenceRaises(inv) ==
    \/ ~DecimalOk(inv.amounts.tax_rate.value)
    \/ ~DecimalOk(inv.amounts.tax_amount.value)
    \/ HasValue(inv.amounts.subtotal) /\ ~DecimalOk(inv.amounts.subtotal.value)

validate_tax_coherence(inv) ==
    IF ~TaxCoherenceApplies(inv) THEN <<>>
    ELSE IF TaxCoherenceRaises(inv)
        THEN <<Failure("tax_coherence", "/amounts")>>
    ELSE IF HasValue(inv.amounts.subtotal)
            /\ Scaled(inv.amounts.subtotal.value) * Scaled(inv.amounts.tax_rate.value) # 0
            /\ ExceedsTolerance(
                 Scaled(inv.amounts.tax_amount.value) * 100 * Pow10(MaxDp),
                 Scaled(inv.amounts.subtotal.value) * Scaled(inv.amounts.tax_rate.value))
        THEN <<Failure("tax_coherence", "/amounts/tax_amount")>>
    ELSE <<>>

(***************************************************************************)
(* RulesEngine._validate_rounding_policy: the digits after the point of    *)
(* str(Decimal) are the dp of the pair; unparsable amounts are skipped.    *)
(***************************************************************************)
RoundingFailure(inv, name) ==
    IF HasNonNull(AmountField(inv, name))
       /\ DecimalOk(AmountField(inv, name).value)
       /\ AmountField(inv, name).value.dp > rounding_decimal_places
        THEN <<Failure("rounding_policy", AmountPath(name))>>
        ELSE <<>>

validate_rounding_policy(inv) ==
    RoundingFailure(inv, "grand_total") \o RoundingFailure(inv, "subtotal")
    \o RoundingFailure(inv, "tax_amount") \o RoundingFailure(inv, "discount")
    \o RoundingFailure(inv, "shipping")

(***************************************************************************)
(* RulesEngine.validate_invoice: the failures of the seven rules in the    *)
(* order they are run; passed iff there is none.                           *)
(***************************************************************************)
AllFailures(inv) ==
    validate_arithmetic(inv) \o validate_line_sum(inv) \o validate_dates(inv)
    \o validate_currency(inv) \o validate_duplicate_hash(inv)
    \o validate_tax_coherence(inv) \o validate_rounding_policy(inv)

RuleReport(fs) == [passed |-> Len(fs) = 0, failures |-> fs]

validate_invoice(inv) == RuleReport(AllFailures(inv))

(***************************************************************************)
(* The invoices the stage code is run on: schema-valid Invoice objects     *)
(* (every required field has a value).  One required field at a time is    *)
(* put just under the confidence threshold; the amounts are combined       *)
(* freely; one further feature at a time is added.                         *)
(***************************************************************************)
RequiredFields == {"invoice_number", "invoice_date", "vendor.name",
                   "amounts.grand_total", "amounts.currency"}

ConfOf(low, f) == IF low = f THEN field_confidence_threshold - 1
                  ELSE field_confidence_threshold

LineItem(q, up, tx, cat, cc) ==
    [description |-> FV(Str("Office chair 4 legs"), 90),
     quantity |-> q, unit_price |-> up, tax_amount |-> tx,
     category |-> cat, category_confidence |-> cc]

\* What _classify_line_items can leave on an item: the pattern scores 1.0
\* and 0.5, the default 0.1, and a trained model's score at the threshold.
\* A line-item field takes the confidence of its token as it is, and OCR
\* may give a token the confidence 0: the last item comes from such a token.
LineItemSet ==
    { LineItem(FV(Num(10, 1), 90), FV(Num(100, 2), 90), NoField,
               "office_supplies", 100),
      LineItem(FV(Num(10, 1), 90), FV(Num(100, 2), 90), NoField,
               "office_supplies", 50),
      LineItem(FV(Num(10, 1), 90), FV(Num(100, 2), 90), FV(Num(10, 2), 90),
               "other", category_confidence_threshold),
      [LineItem(NoField, FV(Num(100, 2), 0), NoField, "office_supplies", 100)
          EXCEPT !.description = FV(Str("Office chair 4 legs"), 0)] }

RECURSIVE SeqsUpTo(_, _)
SeqsUpTo(S, n) ==
    IF n = 0 THEN {<<>>}
    ELSE SeqsUpTo(S, n - 1)
         \cup {Append(q, x) : q \in {r \in SeqsUpTo(S, n - 1) : Len(r) = n - 1}, x \in S}

GrandTotals == {Num(100, 2), Num(102, 2), Num(110, 2)}
Subtotals == {NoField, FV(Num(100, 2), 80), FV(Num(0, 2), 80)}
TaxAmounts == {NoField, FV(Num(10, 2), 80), FV(Num(-5, 2), 80), FV(Num(105, 3), 80)}
Features == {"plain", "discount", "shipping", "tax_rate", "due_before",
             "due_after", "bad_currency"}

\* _create_duplicate_hash digests vendor | number | date | grand total.
create_duplicate_hash(vendor_name, invoice_number, invoice_date, grand_total) ==
    <<vendor_name, invoice_number, invoice_date, grand_total>>

MkInvoice(gt, sub, tax, feat, low, items) ==
    [invoice_number |-> FV(Str("INV-2024-001"), ConfOf(low, "invoice_number")),
     invoice_date |-> FV(Date(15), ConfOf(low, "invoice_date")),
     due_date |-> CASE feat = "due_before" -> FV(Date(10), 80)
                    [] feat = "due_after" -> FV(Date(20), 80)
                    [] OTHER -> NoField,
     vendor |-> [name |-> FV(Str("ACME GmbH"), ConfOf(low, "vendor.name"))],
     amounts |->
        [subtotal |-> sub,
         tax_amount |-> tax,
         tax_rate |-> IF feat = "tax_rate" THEN FV(Num(100, 1), 80) ELSE NoField,
         discount |-> IF feat = "discount" THEN FV(Num(10, 2), 80) ELSE NoField,
         shipping |-> IF feat = "shipping" THEN FV(Num(10, 2), 80) ELSE NoField,
         grand_total |-> FV(gt, ConfOf(low, "amounts.grand_total")),
         currency |-> FV(IF feat = "bad_currency" THEN Str("INR") ELSE Str("EUR"),
                         ConfOf(low, "amounts.currency"))],
     line_items |-> items,
     created_at |-> 0,
     llm_patch_applied |-> FALSE,
     duplicate_hash |-> create_duplicate_hash(Str("ACME GmbH"), Str("INV-2024-001"),
                                              Date(15), gt)]

InvoiceSet ==
    { MkInvoice(gt, sub, tax, feat, low, <<>>) :
        gt \in GrandTotals, sub \in Subtotals, tax \in TaxAmounts,
        feat \in Features, low \in RequiredFields \cup {"none"} }
    \cup
    { MkInvoice(gt, sub, tax, feat, "none", items) :
        gt \in GrandTotals, sub \in Subtotals, tax \in TaxAmounts,
        feat \in Features, items \in SeqsUpTo(LineItemSet, MaxLineItems) }

(***************************************************************************)
(* ProcessingPipeline._make_processing_decision and its three checks.      *)
(***************************************************************************)
required_fields(inv) == <<inv.invoice_number, inv.invoice_date, inv.vendor.name,
                          inv.amounts.grand_total, inv.amounts.currency>>

check_field_confidence(inv) ==
    ~\E i \in 1..5 : required_fields(inv)[i].confidence < field_confidence_threshold

\* Optional[float] None is -1; "if x.category_confidence and ..." skips
\* None and 0.0.
NoConfidence == 0 - 1

check_category_confidence(inv) ==
    \/ inv.line_items = <<>>
    \/ ~\E i \in 1..Len(inv.line_items) :
          /\ inv.line_items[i].category_confidence # NoConfidence
          /\ inv.line_items[i].category_confidence # 0
          /\ inv.line_items[i].category_confidence < category_confidence_threshold

fixable_rules == {"arithmetic_balance", "line_sum_subtotal", "line_sum_tax",
                  "date_format", "currency_format", "tax_coherence",
                  "rounding_policy"}

has_fixable_rules(rr) ==
    \E i \in 1..Len(rr.failures) : rr.failures[i].rule \in fixable_rules

\* Variant: the category check is left out of the auto-post condition.
DecisionAction_NoCategory(field_conf_ok, rules_ok, category_ok, fixable) ==
    IF field_conf_ok /\ rules_ok THEN "auto_post"
    ELSE IF ~rules_ok /\ fixable THEN "llm_fallback"
    ELSE "needs_review"

DecisionAction(field_conf_ok, rules_ok, category_ok, fixable) ==
    IF field_conf_ok /\ rules_ok /\ category_ok THEN "auto_post"
    ELSE IF ~rules_ok /\ fixable THEN "llm_fallback"
    ELSE "needs_review"

make_processing_decision(inv, rr) ==
    DecisionAction(check_field_confidence(inv), rr.passed,
                   check_category_confidence(inv), has_fixable_rules(rr))

(***************************************************************************)
(* JsonPatch and the LLM repair gateway.  rationale is the length of the   *)
(* text, cites_bbox the number of cited ids.  An element of the response   *)
(* array is ok when the JsonPatch constructor accepts it (op, path, value  *)
(* and rationale are there).                                               *)
(***************************************************************************)
JsonPatch(op, path, value, rationale, cites) ==
    [op |-> op, path |-> path, value |-> value, rationale |-> rationale,
     cites_bbox |-> cites]

Elem(ok, patch) == [ok |-> ok, patch |-> patch]

\* The response of the external LLM is any of: the call raising (timeout),
\* text that is not JSON, JSON that is not an array, an array of elements.
PatchElems ==
    { Elem(TRUE, JsonPatch("replace", "/amounts/grand_total", Num(11, 1), 40, 1)),
      Elem(TRUE, JsonPatch("replace", "/amounts/grand_total", Num(10, 1), 40, 1)),
      Elem(TRUE, JsonPatch("replace", "/amounts/subtotal", Num(10, 1), 40, 1)),
      Elem(TRUE, JsonPatch("remove", "/vendor/name", Null, 3, 0)),
      Elem(FALSE, JsonPatch("replace", "/amounts/grand_total", Num(11, 1), 0, 1)) }

LlmResponse(kind, items) == [kind |-> kind, items |-> items]

\* Further patches, each answered alone: a replace of each other required
\* field, of a path that has no second part, of an optional field the
\* replace does not know, and an add.
SinglePatchElems ==
    { Elem(TRUE, JsonPatch("replace", "/vendor/name", Str("ACME Ltd"), 40, 1)),
      Elem(TRUE, JsonPatch("replace", "/amounts/currency", Str("USD"), 40, 1)),
      Elem(TRUE, JsonPatch("replace", "/invoice_number", Str("INV-2024-002"), 40, 1)),
      Elem(TRUE, JsonPatch("replace", "/invoice_date", Date(16), 40, 1)),
      Elem(TRUE, JsonPatch("replace", "/amounts", Num(11, 1), 40, 1)),
      Elem(TRUE, JsonPatch("replace", "/due_date", Date(20), 40, 1)),
      Elem(TRUE, JsonPatch("add", "/amounts/grand_total", Num(11, 1), 40, 1)) }

LlmResponses ==
    { LlmResponse(kind, <<>>) : kind \in {"raise", "notjson", "notlist"} }
    \cup { LlmResponse("list", items) : items \in SeqsUpTo(PatchElems, MaxPatches) }
    \cup { LlmResponse("list", <<e>>) : e \in SinglePatchElems }

\* Optional[List[JsonPatch]]
NonePatch == [isnone |-> TRUE, items |-> <<>>]
SomePatch(items) == [isnone |-> FALSE, items |-> items]

\* "if llm_patch:" is false for None and for the empty list.
PatchTruthy(lp) == ~lp.isnone /\ lp.items # <<>>

RECURSIVE KeepOk(_)
KeepOk(elems) ==
    IF elems = <<>> THEN <<>>
    ELSE (IF Head(elems).ok THEN <<Head(elems).patch>> ELSE <<>>)
         \o KeepOk(Tail(elems))

\* LLMFallback._parse_llm_response: None unless the text is a JSON array;
\* elements JsonPatch rejects are skipped.  _validate_patch is not called.
parse_llm_response(resp) ==
    IF resp.kind = "list" THEN SomePatch(KeepOk(resp.items)) ELSE NonePatch

\* LLMFallback.propose_patch: None when the call raises, [] when the parse
\* gives None or nothing, the parsed list otherwise.
propose_patch(resp) ==
    IF resp.kind = "raise" THEN NonePatch
    ELSE IF PatchTruthy(parse_llm_response(resp)) THEN parse_llm_response(resp)
    ELSE SomePatch(<<>>)

(***************************************************************************)
(* ProcessingPipeline._apply_patch_to_invoice.                             *)
(***************************************************************************)
\* path.strip('/').split('/')
path_parts(path) ==
    CASE path = "/amounts/grand_total" -> <<"amounts", "grand_total">>
      [] path = "/amounts/subtotal" -> <<"amounts", "subtotal">>
      [] path = "/amounts/tax_amount" -> <<"amounts", "tax_amount">>
      [] path = "/amounts/currency" -> <<"amounts", "currency">>
      [] path = "/amounts/discount" -> <<"amounts", "discount">>
      [] path = "/amounts/shipping" -> <<"amounts", "shipping">>
      [] path = "/amounts" -> <<"amounts">>
      [] path = "/invoice_number" -> <<"invoice_number">>
      [] path = "/invoice_date" -> <<"invoice_date">>
      [] path = "/due_date" -> <<"due_date">>
      [] path = "/vendor/name" -> <<"vendor", "name">>
      [] path = "/line_items" -> <<"line_items">>
      [] path = "/duplicate_hash" -> <<"duplicate_hash">>

\* The replace raises (and is caught by the caller, leaving the invoice as
\* it was) when the path has no second part or the amount field is None.
ReplaceRaises(inv, patch) ==
    /\ path_parts(patch.path)[1] = "amounts"
    /\ \/ Len(path_parts(patch.path)) < 2
       \/ path_parts(patch.path)[2] = "subtotal" /\ ~inv.amounts.subtotal.present
       \/ path_parts(patch.path)[2] = "tax_amount" /\ ~inv.amounts.tax_amount.present

\* Variant: the replace puts a new FieldValue in place of the total.
apply_replace_patch_NewField(inv, patch) ==
    IF ReplaceRaises(inv, patch) THEN inv
    ELSE IF path_parts(patch.path)[1] = "amounts" THEN
        CASE path_parts(patch.path)[2] = "grand_total" ->
                [inv EXCEPT !.amounts.grand_total =
                                [FV(patch.value, 100) EXCEPT !.evidence = 0]]
          [] path_parts(patch.path)[2] = "subtotal" ->
                [inv EXCEPT !.amounts.subtotal.value = patch.value]
          [] path_parts(patch.path)[2] = "tax_amount" ->
                [inv EXCEPT !.amounts.tax_amount.value = patch.value]
          [] OTHER -> inv
    ELSE IF path_parts(patch.path)[1] = "invoice_number"
        THEN [inv EXCEPT !.invoice_number.value = patch.value]
    ELSE IF path_parts(patch.path)[1] = "invoice_date"
        THEN [inv EXCEPT !.invoice_date.value = patch.value]
    ELSE inv

apply_replace_patch(inv, patch) ==
    IF ReplaceRaises(inv, patch) THEN inv
    ELSE IF path_parts(patch.path)[1] = "amounts" THEN
        CASE path_parts(patch.path)[2] = "grand_total" ->
                [inv EXCEPT !.amounts.grand_total.value = patch.value]
          [] path_parts(patch.path)[2] = "subtotal" ->
                [inv EXCEPT !.amounts.subtotal.value = patch.value]
          [] path_parts(patch.path)[2] = "tax_amount" ->
                [inv EXCEPT !.amounts.tax_amount.value = patch.value]
          [] OTHER -> inv
    ELSE IF path_parts(patch.path)[1] = "invoice_number"
        THEN [inv EXCEPT !.invoice_number.value = patch.value]
    ELSE IF path_parts(patch.path)[1] = "invoice_date"
        THEN [inv EXCEPT !.invoice_date.value = patch.value]
    ELSE inv

apply_add_patch(inv, patch) == inv

ApplyOne(inv, patch) ==
    IF patch.op = "replace" THEN apply_replace_patch(inv, patch)
    ELSE IF patch.op = "add" THEN apply_add_patch(inv, patch)
    ELSE inv

\* Variant: the list is walked from its end.
RECURSIVE apply_patch_reversed(_, _)
apply_patch_reversed(inv, llm_patch) ==
    IF llm_patch = <<>> THEN inv
    ELSE ApplyOne(apply_patch_reversed(inv, Tail(llm_patch)), Head(llm_patch))

RECURSIVE apply_patch_to_invoice(_, _)
apply_patch_to_invoice(inv, llm_patch) ==
    IF llm_patch = <<>> THEN inv
    ELSE apply_patch_to_invoice(ApplyOne(inv, Head(llm_patch)), Tail(llm_patch))

\* ProcessingPipeline._create_processing_result
create_processing_result(inv, rr, llm_patch, status) ==
    [invoice |-> inv, rule_report |-> rr, llm_patch |-> llm_patch, status |-> status]

\* Variant: a patched invoice is posted whatever the second report says.
ResultAfterPatch_Always(inv, rr, llm_patch) ==
    create_processing_result(inv, rr, llm_patch, "auto_posted")

\* The result after a non-empty patch list: the status follows the second
\* rule report (route.py 115-120).
ResultAfterPatch(inv, rr, llm_patch) ==
    create_processing_result(inv, rr, llm_patch,
        IF rr.passed THEN "auto_posted" ELSE "needs_review")

(***************************************************************************)
(* State.                                                                  *)
(*   active_jobs  ProcessingPipeline.active_jobs: job_id -> JobState; job  *)
(*                ids are 1, 2, ... in creation order (uuid4 is fresh).    *)
(*   task         the coroutine _process_invoice_async of each job: its    *)
(*                position pc, its locals, the exception in flight, the    *)
(*                number of LLM calls and rule evaluations it made and the *)
(*                kind of answer the LLM gave.                             *)
(*   audit_log    the lines of audit.log, in append order.                 *)
(*   clock        what datetime.now() reads; it does not run backwards.    *)
(*   responses    the answers POST /ingest has given, in order.            *)
(*   vendor_cache DeterministicExtractor.vendor_cache of the one global    *)
(*                extractor: layout hash -> cached vendor fields.          *)
(* An Optional is a sequence: <<>> is None, <<x>> is x.                    *)
(***************************************************************************)
VARIABLES active_jobs, task, audit_log, clock, responses, vendor_cache

vars == <<active_jobs, task, audit_log, clock, responses, vendor_cache>>

\* The uploaded document as the pipeline sees it: how many tokens OCR gives
\* and whether the extractor finds every required field in them.
Doc(tokens, schema_valid) == [tokens |-> tokens, schema_valid |-> schema_valid]
DocSet == {Doc(0, FALSE), Doc(2, FALSE), Doc(2, TRUE)}

Jobs == 1..Len(task)

NewJob == [status |-> "processing", current_stage |-> "ocr",
           stages_completed |-> <<>>, result |-> <<>>, error |-> <<>>]

NewTask(doc) == [pc |-> "start", doc |-> doc, exc |-> "", abandoned |-> FALSE,
                 matches |-> <<>>, extracted |-> <<>>, tokens |-> <<>>,
                 top_tokens |-> <<>>, vendor |-> <<>>,
                 total_text |-> <<>>, total_value |-> Null,
                 invoice |-> <<>>, orig_invoice |-> <<>>, rule_report |-> <<>>,
                 decision |-> "", llm_response |-> "", llm_patch |-> NonePatch,
                 result |-> <<>>, category_ok |-> <<>>,
                 llm_calls |-> 0, validations |-> 0]

\* Variant: the stage is recorded in front of the list.
update_job_status_Prepend(jobs, j, stage) ==
    [jobs EXCEPT ![j].current_stage = stage,
                 ![j].stages_completed = <<stage>> \o @]

\* ProcessingPipeline._update_job_status
update_job_status(jobs, j, stage) ==
    [jobs EXCEPT ![j].current_stage = stage,
                 ![j].stages_completed = Append(@, stage)]

\* AuditLogger.log_processing_stage / _write_log_entry: one line appended.
log_processing_stage(log, j, stage, status) ==
    Append(log, [timestamp |-> clock, job_id |-> j, stage |-> stage,
                 status |-> status])

\* log_processing_stage is a plain function that returns None, and the
\* pipeline awaits what it returns: the entry is written, then the await
\* raises TypeError.
AwaitLogResult == "TypeError: object NoneType can't be used in 'await' expression"

OcrError == "OCR failed - no text extracted"

Init ==
    /\ active_jobs = <<>>
    /\ task = <<>>
    /\ audit_log = <<>>
    /\ clock = 0
    /\ vendor_cache = <<>>
    /\ responses = <<>>

(***************************************************************************)
(* process_invoice: the job is entered in the table and its task created.  *)
(***************************************************************************)
ProcessInvoice(doc) ==
    /\ Len(task) < MaxJobs
    /\ active_jobs' = Append(active_jobs, NewJob)
    /\ task' = Append(task, NewTask(doc))
    /\ UNCHANGED <<audit_log, clock, vendor_cache>>

(***************************************************************************)
(* POST /ingest (api/pipeline.py 29-56).  A file name is its parts between *)
(* dots; the extension is the last part in lower case behind a dot.  An    *)
(* extension outside allowed_types raises HTTPException(400) inside the    *)
(* try, which the handler catches and raises again with status 500; no     *)
(* call of process_invoice is made.                                        *)
(***************************************************************************)
allowed_types_Any ==
    {".csv", ".xlsx", ".xls", ".pdf", ".jpg", ".jpeg", ".png", ".gif", ".bmp",
     ".tiff", ".exe", ".readme"}

allowed_types ==
    {".csv", ".xlsx", ".xls", ".pdf", ".jpg", ".jpeg", ".png", ".gif", ".bmp",
     ".tiff"}

Filenames == { <<"invoice", "pdf">>, <<"scan", "PDF">>, <<"setup", "exe">>,
               <<"README">> }

lower(part) ==
    CASE part = "PDF" -> "pdf"
      [] part = "README" -> "readme"
      [] OTHER -> part

file_ext(filename) == "." \o lower(filename[Len(filename)])

MaxRequests == MaxJobs

Response(ext, status, job_id) == [ext |-> ext, status |-> status, job_id |-> job_id]

ingest_invoice(filename, doc) ==
    /\ Len(responses) < MaxRequests
    /\ IF file_ext(filename) \in allowed_types
       THEN /\ ProcessInvoice(doc)
            /\ responses' = Append(responses,
                                Response(file_ext(filename), 200, Len(task) + 1))
       ELSE /\ responses' = Append(responses,
                                Response(file_ext(filename), 500, 0))
            /\ UNCHANGED <<active_jobs, task, audit_log, clock, vendor_cache>>

(***************************************************************************)
(* _process_invoice_async, stage 1 (route.py 55-56): the stage is recorded *)
(* and the task waits for extract_tokens.                                  *)
(***************************************************************************)
StageOcr(j) ==
    /\ task[j].pc = "start"
    /\ active_jobs' = update_job_status(active_jobs, j, "ocr")
    /\ task' = [task EXCEPT ![j].pc = "await_ocr"]
    /\ UNCHANGED audit_log
    /\ UNCHANGED <<clock, responses, vendor_cache>>

(***************************************************************************)
(* extract_tokens returns (route.py 56-64).  No token: the stage raises.   *)
(* Otherwise the 'ocr' entry is logged and awaiting the result raises.     *)
(***************************************************************************)
OcrResult(j) ==
    /\ task[j].pc = "await_ocr"
    /\ IF task[j].doc.tokens = 0
       THEN /\ task' = [task EXCEPT ![j].pc = "except", ![j].exc = OcrError]
            /\ UNCHANGED audit_log
       ELSE /\ audit_log' = log_processing_stage(audit_log, j, "ocr", "completed")
            /\ task' = [task EXCEPT ![j].pc = "except", ![j].exc = AwaitLogResult]
    /\ UNCHANGED active_jobs
    /\ UNCHANGED <<clock, responses, vendor_cache>>

(***************************************************************************)
(* The except block (route.py 139-147): the job is marked failed with the  *)
(* error text and the 'error' entry is logged; the await of that logging   *)
(* call raises in turn, outside any try, which ends the task.              *)
(***************************************************************************)
ExceptHandler_NoAudit(j) ==
    /\ task[j].pc = "except"
    /\ active_jobs' = [active_jobs EXCEPT ![j].status = "failed",
                                          ![j].error = <<task[j].exc>>]
    /\ task' = [task EXCEPT ![j].pc = "done"]
    /\ UNCHANGED audit_log
    /\ UNCHANGED <<clock, responses, vendor_cache>>

ExceptHandler(j) ==
    /\ task[j].pc = "except"
    /\ active_jobs' = [active_jobs EXCEPT ![j].status = "failed",
                                          ![j].error = <<task[j].exc>>]
    /\ audit_log' = log_processing_stage(audit_log, j, "error", "failed")
    /\ task' = [task EXCEPT ![j].pc = "done"]
    /\ UNCHANGED <<clock, responses, vendor_cache>>

\* The caller gives up a job that is still being processed (it stops asking
\* for the result).  The pipeline has no operation for it: nothing in
\* active_jobs or in the task changes, the model only remembers it happened.
Abandon(j) ==
    /\ active_jobs[j].status = "processing"
    /\ ~task[j].abandoned
    /\ task' = [task EXCEPT ![j].abandoned = TRUE]
    /\ UNCHANGED <<active_jobs, audit_log, clock, responses, vendor_cache>>

\* Time passes between the steps of the tasks.
Tick ==
    /\ clock < MaxClock
    /\ clock' = clock + 1
    /\ UNCHANGED <<active_jobs, task, audit_log, responses, vendor_cache>>

Next ==
    \/ Tick
    \/ \E filename \in Filenames, doc \in DocSet : ingest_invoice(filename, doc)
    \/ \E j \in Jobs : Abandon(j)
    \/ \E j \in Jobs : StageOcr(j)
    \/ \E j \in Jobs : OcrResult(j)
    \/ \E j \in Jobs : ExceptHandler(j)

Spec == Init /\ [][Next]_vars

(***************************************************************************)
(* DeterministicExtractor: the required header fields.  For each of them   *)
(* the tokens give one of: a label with a value that parses ("ok"), a      *)
(* label with a value text that parses to None ("unparsable": amounts and  *)
(* dates only), no label with a value ("none").  A found field has the     *)
(* confidence of _calculate_field_confidence, which is above 0 (a match of *)
(* confidence 0.0 is not kept) and at most 0.8.                            *)
(***************************************************************************)
ExtractedFields == {"vendor", "grand_total", "invoice_number", "invoice_date"}

MatchKinds(f) ==
    IF f \in {"grand_total", "invoice_date"} THEN {"ok", "unparsable", "none"}
    ELSE {"ok", "none"}

FoundConfidence == 80

NotExtracted == [present |-> FALSE, isnull |-> TRUE, confidence |-> 0, evidence |-> 0]

(***************************************************************************)
(* DeterministicExtractor._parse_amount.  A text is the sequence of its    *)
(* characters; the Decimal it gives is Num(n, dp), None is Null.           *)
(***************************************************************************)
DigitChars == <<"0", "1", "2", "3", "4", "5", "6", "7", "8", "9">>

IsDigit(c) == \E i \in 1..Len(DigitChars) : DigitChars[i] = c

DigitVal(c) == (CHOOSE i \in 1..Len(DigitChars) : DigitChars[i] = c) - 1

\* re.sub(r'[^\d.,\-]', '', text)
StripAmount(text) ==
    LET Kept(c) == IsDigit(c) \/ c \in {".", ",", "-"}
    IN SelectSeq(text, Kept)

Has(text, c) == \E i \in 1..Len(text) : text[i] = c

Count(text, c) == Cardinality({i \in 1..Len(text) : text[i] = c})

Without(text, c) ==
    LET Other(x) == x # c IN SelectSeq(text, Other)

Replaced(text, c, d) == [i \in 1..Len(text) |-> IF text[i] = c THEN d ELSE text[i]]

\* len(amount_text.split(',')[1]) for a text with exactly one comma
AfterComma(text) == Len(text) - (CHOOSE i \in 1..Len(text) : text[i] = ",")

\* The separator handling of lines 396-404.
Separators(t) ==
    IF Has(t, ",") /\ Has(t, ".")
    THEN Without(t, ",")
    ELSE IF Has(t, ",")
    THEN IF Count(t, ",") = 1 /\ AfterComma(t) <= 2
         THEN Replaced(t, ",", ".")
         ELSE Without(t, ",")
    ELSE t

\* Decimal(amount_text) accepts, of the texts made of digits, dots and
\* minus signs: an optional leading minus, then digits with at most one dot
\* and at least one digit.
Unsigned(t) == IF t # <<>> /\ Head(t) = "-" THEN Tail(t) ELSE t

DecimalAccepts(t) ==
    /\ ~Has(Unsigned(t), "-")
    /\ Count(t, ".") <= 1
    /\ \E i \in 1..Len(t) : IsDigit(t[i])

RECURSIVE DigitsValue(_)
DigitsValue(ds) ==
    IF ds = <<>> THEN 0
    ELSE 10 * DigitsValue(SubSeq(ds, 1, Len(ds) - 1)) + DigitVal(ds[Len(ds)])

DecimalOf(t) ==
    LET u == Unsigned(t)
        n == DigitsValue(Without(u, "."))
        dp == IF Has(u, ".") THEN Len(u) - (CHOOSE i \in 1..Len(u) : u[i] = ".")
              ELSE 0
    IN Num(IF u # t THEN 0 - n ELSE n, dp)

parse_amount(text) ==
    IF StripAmount(text) = <<>> THEN Null
    ELSE IF DecimalAccepts(Separators(StripAmount(text)))
         THEN DecimalOf(Separators(StripAmount(text)))
         ELSE Null

\* Texts of the value token beside the total label.
AmountTexts ==
    { <<"1", ",", "2", "3", "4", ".", "5", "6">>,
      <<"1", ".", "2", "3", "4", ",", "5", "6">>,
      <<"1", ",", "5", "6">>,
      <<"1", ",", "2", "3", "4">>,
      <<"E", "U", "R", " ", "1", ".", "1", "0">>,
      <<"1", ".", "2", ".", "3">> }

\* The text behind a match of the total: one that parses for "ok", one that
\* parses to None for "unparsable", no token for "none".
TotalTexts(kind) ==
    IF kind = "none" THEN {<<>>}
    ELSE {t \in AmountTexts : (parse_amount(t) # Null) <=> (kind = "ok")}

\* _find_field_by_patterns
find_field_by_patterns(kind, required) ==
    IF kind = "none"
    THEN IF required
            THEN [present |-> TRUE, isnull |-> TRUE, confidence |-> 0, evidence |-> 0]
            ELSE NotExtracted
    ELSE [present |-> TRUE, isnull |-> (kind = "unparsable"),
          confidence |-> FoundConfidence, evidence |-> 1]

\* What the tokens of a document hold for the required fields.
Matches(doc) ==
    { m \in [ExtractedFields -> {"ok", "unparsable", "none"}] :
        /\ \A f \in ExtractedFields : m[f] \in MatchKinds(f)
        /\ doc.schema_valid <=> (\A f \in ExtractedFields : m[f] = "ok") }

\* Amounts.grand_total_required, raised inside _extract_amounts.
AmountsRaises(m) == find_field_by_patterns(m["grand_total"], TRUE).isnull

\* extract_invoice up to the Invoice constructor: vendor and amounts come
\* first, and the header fields are not looked for once Amounts has raised.
extract_fields(m) ==
    [f \in ExtractedFields |->
        IF AmountsRaises(m) /\ f \in {"invoice_number", "invoice_date"}
        THEN NotExtracted
        ELSE find_field_by_patterns(m[f], TRUE)]

(***************************************************************************)
(* DeterministicExtractor._calculate_field_confidence.  Token confidences  *)
(* are percentages, a distance is in pixels; the distance factor is in     *)
(* thousandths and the result is the percentage rounded down, which keeps  *)
(* every comparison with a whole percentage.  The value token is one that  *)
(* _find_value_near_token returned: it lies within 200 pixels of the label *)
(* and looks like a value.                                                 *)
(***************************************************************************)
TokenConfidences == {0, 50, 100}
Distances == {0, 199}

Min(a, b) == IF a < b THEN a ELSE b
Max(a, b) == IF a > b THEN a ELSE b

distance_factor(distance) == Max(100, 1000 - 2 * distance)

pattern_factor == 8

text_quality(looks_like_value) == IF looks_like_value THEN 10 ELSE 3

calculate_field_confidence(conf_label, conf_value, distance, looks_like_value) ==
    Min(100, Max(0,
        (Min(conf_label, conf_value) * distance_factor(distance) * pattern_factor
            * text_quality(looks_like_value)) \div 100000))

\* _find_currency: a currency symbol in a token gives 0.9, none gives the
\* default EUR at 0.1.
find_currency(symbol_found) ==
    IF symbol_found THEN FV(Str("EUR"), 90)
    ELSE [FV(Str("EUR"), 10) EXCEPT !.evidence = 0]

\* The confidences of the label and value tokens of the required fields and
\* the distance between a label and its value.  A match is kept only when
\* its confidence is above 0.
TokenParams ==
    { <<cl, cv, d>> : cl \in TokenConfidences \ {0},
                      cv \in TokenConfidences \ {0}, d \in Distances }

\* extract_invoice on a document in which every required field has its
\* label beside a value that parses: a currency symbol is printed, the
\* total (of the text total_text) is the only amount and there are no line
\* items.  Invoice.created_at is datetime.now() at construction.
extract_invoice(total_text, tk, now) ==
    LET c == calculate_field_confidence(tk[1], tk[2], tk[3], TRUE)
        inv == MkInvoice(parse_amount(total_text), NoField, NoField, "plain",
                         "none", <<>>)
    IN [inv EXCEPT !.invoice_number.confidence = c,
                   !.invoice_date.confidence = c,
                   !.vendor.name.confidence = c,
                   !.amounts.grand_total.confidence = c,
                   !.amounts.currency = find_currency(TRUE),
                   !.created_at = now]

\* The clean document: its total reads "EUR 1.10".
CleanTotal == <<"E", "U", "R", " ", "1", ".", "1", "0">>

ExtractClean(conf_label, conf_value, distance) ==
    extract_invoice(CleanTotal, <<conf_label, conf_value, distance>>, 0)

CleanInvoices == { ExtractClean(tk[1], tk[2], tk[3]) : tk \in TokenParams }

\* The Invoice extract_invoice returns, when no constructor raises.
Extracted(m, total_text, tk, now) ==
    IF \A f \in ExtractedFields : m[f] = "ok"
    THEN <<extract_invoice(total_text, tk, now)>>
    ELSE <<>>

\* Variant: the vendor validator is missing.
InvoiceRaises_NoVendor(ex) ==
    \E f \in {"invoice_number", "invoice_date"} : ex[f].isnull

\* The validators of Invoice: invoice_number, invoice_date, vendor.
InvoiceRaises(ex) ==
    \E f \in {"invoice_number", "invoice_date", "vendor"} : ex[f].isnull

SchemaErrorAmounts == "1 validation error for Amounts"
SchemaErrorInvoice == "validation error for Invoice"

(***************************************************************************)
(* _create_layout_fingerprint and _extract_vendor.  A token is given by    *)
(* its page, the top-left corner (x, y) of its box and its text.  The      *)
(* fingerprint is the digest of the texts of the first 15 tokens in the    *)
(* order of sorted(), joined by a bar; it is modelled by the sequence of   *)
(* those texts.  sorted() is stable: tokens of equal key keep the order    *)
(* they have in the list.                                                  *)
(***************************************************************************)
LayoutToken(page, x, y, text) == [page |-> page, x |-> x, y |-> y, text |-> text]

\* key=lambda t: (t.page, t.bbox[1], t.bbox[0])
KeyLess(a, b) ==
    \/ a.page < b.page
    \/ a.page = b.page /\ a.y < b.y
    \/ a.page = b.page /\ a.y = b.y /\ a.x < b.x

RECURSIVE InsertSorted(_, _)
InsertSorted(done, t) ==
    IF done = <<>> THEN <<t>>
    ELSE IF KeyLess(t, Head(done)) THEN <<t>> \o done
    ELSE <<Head(done)>> \o InsertSorted(Tail(done), t)

RECURSIVE sorted(_)
sorted(tokens) ==
    IF tokens = <<>> THEN <<>>
    ELSE InsertSorted(sorted(SubSeq(tokens, 1, Len(tokens) - 1)), tokens[Len(tokens)])

TopCount == 15

create_layout_fingerprint(tokens) ==
    [i \in 1..Min(TopCount, Len(tokens)) |-> sorted(tokens)[i].text]

\* The field types that have label patterns (_build_label_patterns).
LabelPatternKeys == {"total", "tax", "discount", "shipping", "invoice_number",
                     "date", "vendor"}

\* _find_field_by_patterns for an optional field: a type without label
\* patterns is never found, whatever the tokens hold.
find_optional_field(field_type, kind) ==
    IF field_type \in LabelPatternKeys THEN find_field_by_patterns(kind, FALSE)
    ELSE NotExtracted

VendorZones == {"address", "tax_id", "phone", "email"}

\* cached_zones.get(f) on the empty dict
NoZones == [f \in VendorZones |-> NotExtracted]

\* Variant: the cache keeps the entry of the last layout only.
cache_put_LastOnly(cache, layout_hash, zones) ==
    [h \in {layout_hash} |-> zones]

\* "if layout_hash not in self.vendor_cache: self.vendor_cache[...] = ..."
cache_put(cache, layout_hash, zones) ==
    IF layout_hash \in DOMAIN cache THEN cache
    ELSE [h \in DOMAIN cache \cup {layout_hash} |->
            IF h = layout_hash THEN zones ELSE cache[h]]

\* _extract_vendor: the vendor and the cache it leaves.  own is what the
\* document's own tokens give for the four optional fields.
extract_vendor(cache, name_kind, layout_hash) ==
    LET cached_zones == IF layout_hash \in DOMAIN cache THEN cache[layout_hash]
                        ELSE NoZones
        own == [f \in VendorZones |-> find_optional_field(f, "ok")]
        zones == [f \in VendorZones |->
                    IF own[f].present THEN own[f] ELSE cached_zones[f]]
    IN [vendor |-> [name |-> find_field_by_patterns(name_kind, TRUE),
                    zones |-> zones, layout_hash |-> layout_hash],
        own |-> own,
        cache |-> cache_put(cache, layout_hash, zones)]

\* The tokens at the top of the documents of DocSet.
DocTokens(doc) ==
    IF doc.schema_valid
    THEN <<LayoutToken(0, 10, 10, "From:"), LayoutToken(0, 60, 10, "ACME GmbH")>>
    ELSE <<LayoutToken(0, 10, 10, "Lorem"), LayoutToken(0, 60, 10, "ipsum")>>

(***************************************************************************)
(* Stage 2 (route.py 66-75), started for a job that has recorded the ocr   *)
(* stage.  When a constructor raises the task goes to the except block;    *)
(* otherwise the 'extraction' entry is logged and awaiting the result of   *)
(* the logging call raises.                                                *)
(***************************************************************************)
StageExtraction(j, m, text, tk) ==
    /\ task[j].pc = "extraction"
    /\ active_jobs' = update_job_status(active_jobs, j, "extraction")
    /\ LET ex == extract_fields(m)
           v == extract_vendor(vendor_cache, m["vendor"],
                               create_layout_fingerprint(DocTokens(task[j].doc)))
       IN /\ vendor_cache' = v.cache
          /\ IF AmountsRaises(m) \/ InvoiceRaises(ex)
             THEN /\ task' = [task EXCEPT
                        ![j].pc = "except",
                        ![j].matches = <<m>>,
                        ![j].total_text = text,
                        ![j].total_value = parse_amount(text),
                        ![j].extracted = <<ex>>,
                        ![j].tokens = <<tk>>,
                        ![j].top_tokens = DocTokens(task[j].doc),
                        ![j].vendor = <<v>>,
                        ![j].exc = IF AmountsRaises(m) THEN SchemaErrorAmounts
                                   ELSE SchemaErrorInvoice]
                  /\ UNCHANGED audit_log
             ELSE /\ task' = [task EXCEPT
                        ![j].pc = "except",
                        ![j].matches = <<m>>,
                        ![j].total_text = text,
                        ![j].total_value = parse_amount(text),
                        ![j].extracted = <<ex>>,
                        ![j].tokens = <<tk>>,
                        ![j].top_tokens = DocTokens(task[j].doc),
                        ![j].vendor = <<v>>,
                        ![j].invoice = Extracted(m, text, tk, clock),
                        ![j].orig_invoice = Extracted(m, text, tk, clock),
                        ![j].exc = AwaitLogResult]
                  /\ audit_log' = log_processing_stage(audit_log, j, "extraction",
                                                       "completed")
    /\ UNCHANGED <<clock, responses>>

(***************************************************************************)
(* The stage code from the decision on (route.py 95-147), started for one  *)
(* job on each invoice of InvoiceSet: the job has recorded the first four  *)
(* stages, and rule_report is what validate_invoice gave for the invoice.  *)
(***************************************************************************)
EarlyStages == <<"ocr", "extraction", "classification", "validation">>

InitDecision ==
    \E inv \in InvoiceSet \cup CleanInvoices :
        /\ active_jobs = <<[NewJob EXCEPT !.current_stage = "validation",
                                          !.stages_completed = EarlyStages]>>
        /\ task = <<[NewTask(Doc(2, TRUE)) EXCEPT
                        !.pc = "decision",
                        !.invoice = <<inv>>,
                        !.orig_invoice = <<inv>>,
                        !.rule_report = <<validate_invoice(inv)>>,
                        !.validations = 1]>>
        /\ audit_log = [i \in 1..4 |->
                          [timestamp |-> 0, job_id |-> 1, stage |-> EarlyStages[i],
                           status |-> "completed"]]
        /\ clock = 0
        /\ vendor_cache = <<>>
        /\ responses = <<Response(".pdf", 200, 1)>>

\* Jobs at the start of stage 2, for a document with tokens: one job, or
\* two jobs to which the same clean document was submitted.
AtExtraction(doc, j) ==
    [job |-> [NewJob EXCEPT !.stages_completed = <<"ocr">>],
     task |-> [NewTask(doc) EXCEPT !.pc = "extraction"],
     entry |-> [timestamp |-> 0, job_id |-> j, stage |-> "ocr",
                status |-> "completed"],
     response |-> Response(".pdf", 200, j)]

InitExtraction ==
    \E doc \in {d \in DocSet : d.tokens > 0} :
        \E js \in (IF doc.schema_valid THEN {<<1>>, <<1, 2>>} ELSE {<<1>>}) :
            /\ active_jobs = [i \in DOMAIN js |-> AtExtraction(doc, js[i]).job]
            /\ task = [i \in DOMAIN js |-> AtExtraction(doc, js[i]).task]
            /\ audit_log = [i \in DOMAIN js |-> AtExtraction(doc, js[i]).entry]
            /\ responses = [i \in DOMAIN js |-> AtExtraction(doc, js[i]).response]
            /\ clock = 0
            /\ vendor_cache = <<>>

InitStages == InitDecision \/ InitExtraction

(***************************************************************************)
(* Stage 5 (route.py 95-97): the decision is taken.                        *)
(***************************************************************************)
StageDecision(j) ==
    /\ task[j].pc = "decision"
    /\ active_jobs' = update_job_status(active_jobs, j, "decision")
    /\ task' = [task EXCEPT
          ![j].pc = "decided",
          ![j].decision = make_processing_decision(task[j].invoice[1],
                                                   task[j].rule_report[1])]
    /\ UNCHANGED audit_log
    /\ UNCHANGED <<clock, responses, vendor_cache>>

\* route.py 99-102
AutoPost(j) ==
    /\ task[j].pc = "decided"
    /\ task[j].decision = "auto_post"
    /\ active_jobs' = update_job_status(active_jobs, j, "auto_post")
    /\ task' = [task EXCEPT
          ![j].pc = "final",
          ![j].result = <<create_processing_result(task[j].invoice[1],
                             task[j].rule_report[1], NonePatch, "auto_posted")>>]
    /\ UNCHANGED audit_log
    /\ UNCHANGED <<clock, responses, vendor_cache>>

\* route.py 124-125
NeedsReview(j) ==
    /\ task[j].pc = "decided"
    /\ task[j].decision = "needs_review"
    /\ task' = [task EXCEPT
          ![j].pc = "final",
          ![j].result = <<create_processing_result(task[j].invoice[1],
                             task[j].rule_report[1], NonePatch, "needs_review")>>]
    /\ UNCHANGED <<active_jobs, audit_log>>
    /\ UNCHANGED <<clock, responses, vendor_cache>>

\* route.py 104-107: the stage is recorded and the gateway is called.
LlmFallback(j) ==
    /\ task[j].pc = "decided"
    /\ task[j].decision = "llm_fallback"
    /\ active_jobs' = update_job_status(active_jobs, j, "llm_fallback")
    /\ task' = [task EXCEPT ![j].pc = "await_llm"]
    /\ UNCHANGED audit_log
    /\ UNCHANGED <<clock, responses, vendor_cache>>

\* _apply_llm_fallback / propose_patch return: one LLM call has been made,
\* whatever it answered.
LlmReturn(j, resp) ==
    /\ task[j].pc = "await_llm"
    /\ task' = [task EXCEPT ![j].pc = "llm_returned",
                            ![j].llm_calls = @ + 1,
                            ![j].llm_response = resp.kind,
                            ![j].llm_patch = propose_patch(resp)]
    /\ UNCHANGED <<active_jobs, audit_log>>
    /\ UNCHANGED <<clock, responses, vendor_cache>>

\* route.py 109-120: a non-empty patch list is applied, the rules are run
\* again and the result follows the new report.
PatchApply(j) ==
    /\ task[j].pc = "llm_returned"
    /\ PatchTruthy(task[j].llm_patch)
    /\ active_jobs' = update_job_status(active_jobs, j, "patch_apply")
    /\ LET patched == apply_patch_to_invoice(task[j].invoice[1], task[j].llm_patch.items)
           rr == validate_invoice(patched)
       IN task' = [task EXCEPT
              ![j].pc = "final",
              ![j].invoice = <<patched>>,
              ![j].rule_report = <<rr>>,
              ![j].validations = @ + 1,
              ![j].result = <<ResultAfterPatch(patched, rr, task[j].llm_patch)>>]
    /\ UNCHANGED audit_log
    /\ UNCHANGED <<clock, responses, vendor_cache>>

\* Variant: with no patch the gateway is asked again.
NoPatch_Retry(j) ==
    /\ task[j].pc = "llm_returned"
    /\ ~PatchTruthy(task[j].llm_patch)
    /\ task' = [task EXCEPT ![j].pc = "await_llm"]
    /\ UNCHANGED <<active_jobs, audit_log>>
    /\ UNCHANGED <<clock, responses, vendor_cache>>

\* route.py 121-122: None or an empty list.
NoPatch(j) ==
    /\ task[j].pc = "llm_returned"
    /\ ~PatchTruthy(task[j].llm_patch)
    /\ task' = [task EXCEPT
          ![j].pc = "final",
          ![j].result = <<create_processing_result(task[j].invoice[1],
                             task[j].rule_report[1], NonePatch, "needs_review")>>]
    /\ UNCHANGED <<active_jobs, audit_log>>
    /\ UNCHANGED <<clock, responses, vendor_cache>>

(***************************************************************************)
(* Final stage (route.py 127-135): the result is stored, the job marked    *)
(* completed and the 'completed' entry logged; awaiting the result of the  *)
(* logging call raises inside the try.                                     *)
(***************************************************************************)
StageCompleted(j) ==
    /\ task[j].pc = "final"
    /\ active_jobs' = [update_job_status(active_jobs, j, "completed") EXCEPT
                          ![j].result = task[j].result,
                          ![j].status = "completed"]
    /\ audit_log' = log_processing_stage(audit_log, j, "completed", "completed")
    /\ task' = [task EXCEPT ![j].pc = "except", ![j].exc = AwaitLogResult]
    /\ UNCHANGED <<clock, responses, vendor_cache>>

NextStages ==
    \/ \E j \in Jobs :
          /\ task[j].pc = "extraction"
          /\ \E m \in Matches(task[j].doc) :
                \E text \in TotalTexts(m["grand_total"]), tk \in TokenParams :
                   StageExtraction(j, m, text, tk)
    \/ Tick
    \/ \E j \in Jobs : StageDecision(j)
    \/ \E j \in Jobs : AutoPost(j)
    \/ \E j \in Jobs : NeedsReview(j)
    \/ \E j \in Jobs : LlmFallback(j)
    \/ \E j \in Jobs, resp \in LlmResponses : LlmReturn(j, resp)
    \/ \E j \in Jobs : PatchApply(j)
    \/ \E j \in Jobs : NoPatch(j)
    \/ \E j \in Jobs : StageCompleted(j)
    \/ \E j \in Jobs : ExceptHandler(j)

SpecStages == InitStages /\ [][NextStages]_vars

(***************************************************************************)
(* _check_category_confidence on its own (route.py 181, 209-219), applied  *)
(* to every list of line items of a bounded set: an item is either not     *)
(* classified (no category, no confidence) or has a category with a        *)
(* confidence of the range the LineItem schema allows, 0.0 included.       *)
(***************************************************************************)
CategoryConfidences == {0, 10, category_confidence_threshold - 1,
                        category_confidence_threshold, 100}

CategoryItems ==
    { LineItem(NoField, NoField, NoField, "", NoConfidence) }
    \cup { LineItem(NoField, NoField, NoField, cat, cc) :
             cat \in {"other", "office_supplies"}, cc \in CategoryConfidences }

MaxCheckedItems == MaxLineItems + 1

InitCategory ==
    \E items \in SeqsUpTo(CategoryItems, MaxCheckedItems) :
        LET inv == MkInvoice(Num(110, 2), NoField, NoField, "plain", "none", items)
        IN /\ active_jobs = <<[NewJob EXCEPT !.current_stage = "decision",
                                    !.stages_completed = Append(EarlyStages, "decision")]>>
           /\ task = <<[NewTask(Doc(2, TRUE)) EXCEPT
                           !.pc = "check_category",
                           !.invoice = <<inv>>,
                           !.orig_invoice = <<inv>>,
                           !.rule_report = <<validate_invoice(inv)>>,
                           !.validations = 1]>>
           /\ audit_log = [i \in 1..4 |->
                             [timestamp |-> 0, job_id |-> 1, stage |-> EarlyStages[i],
                              status |-> "completed"]]
           /\ clock = 0
           /\ vendor_cache = <<>>
           /\ responses = <<Response(".pdf", 200, 1)>>

CheckCategory(j) ==
    /\ task[j].pc = "check_category"
    /\ task' = [task EXCEPT
          ![j].pc = "checked",
          ![j].category_ok = <<check_category_confidence(task[j].invoice[1])>>]
    /\ UNCHANGED <<active_jobs, audit_log, clock, responses, vendor_cache>>

NextCategory == \E j \in Jobs : CheckCategory(j)

SpecCategory == InitCategory /\ [][NextCategory]_vars

(***************************************************************************)
(* The first two steps of extract_invoice on their own (deterministic.py   *)
(* 128-131): the layout fingerprint of a token list and _extract_vendor    *)
(* with it, called for one document after the other on the one extractor   *)
(* of the process.  The steps have no await between them, so the calls of  *)
(* concurrent jobs happen one after the other in some order.  A document   *)
(* is a list of tokens; two of the tokens have the same page and corner.   *)
(***************************************************************************)
MaxTokens == 2

TokenSet == { LayoutToken(0, 10, 10, "From:"), LayoutToken(0, 10, 10, "ACME GmbH"),
              LayoutToken(0, 10, 40, "Invoice") }

TokenLists == SeqsUpTo(TokenSet, MaxTokens) \ {<<>>}

InitVendor ==
    /\ active_jobs = <<>>
    /\ task = <<>>
    /\ audit_log = <<>>
    /\ clock = 0
    /\ vendor_cache = <<>>
    /\ responses = <<>>

ExtractVendor(tokens, name_kind) ==
    /\ Len(task) < MaxJobs
    /\ LET v == extract_vendor(vendor_cache, name_kind,
                               create_layout_fingerprint(tokens))
       IN /\ vendor_cache' = v.cache
          /\ task' = Append(task, [NewTask(Doc(Len(tokens), FALSE)) EXCEPT
                                      !.pc = "vendor",
                                      !.top_tokens = tokens,
                                      !.vendor = <<v>>])
    /\ active_jobs' = Append(active_jobs,
                             [NewJob EXCEPT !.current_stage = "extraction",
                                            !.stages_completed = <<"ocr", "extraction">>])
    /\ UNCHANGED <<audit_log, clock, responses>>

NextVendor ==
    \E tokens \in TokenLists, name_kind \in MatchKinds("vendor") :
        ExtractVendor(tokens, name_kind)

SpecVendor == InitVendor /\ [][NextVendor]_vars

(***************************************************************************)
(* The queries (route.py 344-351).  A job id outside the table is unknown; *)
(* dict.get gives None for it.                                             *)
(***************************************************************************)
get_job_status(jobs, job_id) ==
    IF job_id \in DOMAIN jobs THEN <<jobs[job_id]>> ELSE <<>>

\* Variant: the stored result is returned whatever the status is.
get_job_result_AnyStatus(jobs, job_id) ==
    IF job_id \in DOMAIN jobs THEN jobs[job_id].result ELSE <<>>

get_job_result(jobs, job_id) ==
    IF job_id \in DOMAIN jobs /\ jobs[job_id].status = "completed"
    THEN jobs[job_id].result
    ELSE <<>>

\* The ids a caller may ask for: those of the jobs and two of no job.
JobIds == 0..(MaxJobs + 1)

(***************************************************************************)
(* Properties.                                                             *)
(***************************************************************************)
HasResult(j) == task[j].result # <<>>

\* C1: the decision is llm_fallback exactly when the report failed and
\* every failure names a rule of the repairable set; one failure outside
\* the set sends the invoice to needs_review.
RepairableSet == {"arithmetic_balance", "line_sum_subtotal", "line_sum_tax",
                  "date_format", "currency_format", "tax_coherence",
                  "rounding_policy"}

AllRepairable(rr) ==
    \A i \in 1..Len(rr.failures) : rr.failures[i].rule \in RepairableSet

C1_FallbackIffAllRepairable ==
    \A j \in Jobs :
        task[j].pc = "decided" =>
            (task[j].decision = "llm_fallback"
                <=> (~task[j].rule_report[1].passed
                     /\ AllRepairable(task[j].rule_report[1])))

\* C2: the decision is auto_post exactly when every required field has a
\* confidence of at least field_confidence_threshold, the rule report
\* passed, and every line item that has a category has a category
\* confidence of at least category_confidence_threshold.
C2_FieldConfOk(inv) ==
    \A f \in {inv.invoice_number, inv.invoice_date, inv.vendor.name,
              inv.amounts.grand_total, inv.amounts.currency} :
        f.confidence >= field_confidence_threshold

C2_CategoryOk(inv) ==
    \A i \in 1..Len(inv.line_items) :
        inv.line_items[i].category # ""
            => inv.line_items[i].category_confidence >= category_confidence_threshold

C3_AtMostOneLlmCall ==
    \A j \in Jobs :
        /\ task[j].llm_calls <= 1
        /\ task[j].llm_calls = 1 => task[j].decision = "llm_fallback"

C3_Witness ==
    \E j \in Jobs :
        /\ task[j].pc = "done"
        /\ task[j].llm_calls = 1
        /\ PatchTruthy(task[j].llm_patch)
        /\ task[j].result[1].status = "needs_review"

\* C4: a non-empty patch list is applied in list order (for each field the
\* last replace naming it decides the value), the rules are evaluated once
\* more on the patched invoice, the result carries that report and is
\* auto_posted if it passed and needs_review if not, and there is no
\* further repair round.
C4_Last(ps, path, default) ==
    LET hits == {i \in 1..Len(ps) : ps[i].op = "replace" /\ ps[i].path = path}
    IN IF hits = {} THEN default
       ELSE ps[CHOOSE i \in hits : \A h \in hits : h <= i].value

C4_InOrder(orig, ps, inv) ==
    /\ inv.amounts.grand_total.value
          = C4_Last(ps, "/amounts/grand_total", orig.amounts.grand_total.value)
    /\ inv.amounts.subtotal.value
          = IF orig.amounts.subtotal.present
               THEN C4_Last(ps, "/amounts/subtotal", orig.amounts.subtotal.value)
               ELSE orig.amounts.subtotal.value
    /\ inv.amounts.tax_amount.value
          = IF orig.amounts.tax_amount.present
               THEN C4_Last(ps, "/amounts/tax_amount", orig.amounts.tax_amount.value)
               ELSE orig.amounts.tax_amount.value
    /\ inv.invoice_number.value
          = C4_Last(ps, "/invoice_number", orig.invoice_number.value)
    /\ inv.invoice_date.value
          = C4_Last(ps, "/invoice_date", orig.invoice_date.value)

C4_PatchThenOneRevalidation ==
    \A j \in Jobs :
        (HasResult(j) /\ PatchTruthy(task[j].llm_patch)) =>
            /\ C4_InOrder(task[j].orig_invoice[1], task[j].llm_patch.items,
                          task[j].result[1].invoice)
            /\ task[j].validations = 2
            /\ task[j].llm_calls = 1
            /\ task[j].result[1].rule_report = validate_invoice(task[j].result[1].invoice)
            /\ task[j].result[1].status
                  = IF validate_invoice(task[j].result[1].invoice).passed
                       THEN "auto_posted" ELSE "needs_review"
            /\ task[j].pc \in {"final", "except", "done"}

C4_Witness ==
    \E j \in Jobs :
        /\ HasResult(j)
        /\ Len(task[j].llm_patch.items) = 2
        /\ task[j].llm_patch.items[1].path = task[j].llm_patch.items[2].path
        /\ task[j].llm_patch.items[1].value # task[j].llm_patch.items[2].value
        /\ task[j].result[1].status = "auto_posted"

\* C5: the invoice of a result has llm_patch_applied = TRUE exactly when an
\* LLM patch was applied to it.
C5_PatchAppliedFlag ==
    \A j \in Jobs :
        HasResult(j) =>
            (task[j].result[1].invoice.llm_patch_applied
                <=> PatchTruthy(task[j].llm_patch))

\* C6: a stored job result with status auto_posted has a passed rule
\* report without failures, and validating its invoice again passes.
C6_AutoPostedPassed ==
    \A j \in Jobs :
        (active_jobs[j].result # <<>>
         /\ active_jobs[j].result[1].status = "auto_posted") =>
            /\ active_jobs[j].result[1].rule_report.passed
            /\ active_jobs[j].result[1].rule_report.failures = <<>>
            /\ validate_invoice(active_jobs[j].result[1].invoice).passed

C6_Witness ==
    \E j \in Jobs :
        /\ active_jobs[j].result # <<>>
        /\ active_jobs[j].result[1].status = "auto_posted"
        /\ PatchTruthy(active_jobs[j].result[1].llm_patch)
        /\ active_jobs[j].result[1].invoice # task[j].orig_invoice[1]

\* C7: every patch the gateway returns has op add or replace, a path that
\* is a required-field path or the path of a failure of the rule report, a
\* rationale of at least 10 characters and a non-empty cites_bbox.
RequiredPaths == {"/invoice_number", "/invoice_date", "/vendor/name",
                  "/amounts/grand_total", "/amounts/currency"}

FailurePaths(rr) == {rr.failures[i].path : i \in 1..Len(rr.failures)}

C7_Contract(patch, rr) ==
    /\ patch.op \in {"add", "replace"}
    /\ patch.path \in RequiredPaths \cup FailurePaths(rr)
    /\ patch.rationale >= 10
    /\ patch.cites_bbox > 0

C7_ReturnedPatchesValid ==
    \A j \in Jobs :
        \A i \in 1..Len(task[j].llm_patch.items) :
            C7_Contract(task[j].llm_patch.items[i],
                        validate_invoice(task[j].orig_invoice[1]))

\* C8: when the LLM call raises or its answer is not a JSON array, the job
\* does not become failed: no patch is applied, the invoice is unchanged
\* and the job completes with result status needs_review.
C8_LlmErrorNeedsReview ==
    \A j \in Jobs :
        task[j].llm_response \in {"raise", "notjson", "notlist"} =>
            /\ active_jobs[j].status # "failed"
            /\ task[j].pc = "done" =>
                  /\ active_jobs[j].status = "completed"
                  /\ active_jobs[j].result # <<>>
                  /\ active_jobs[j].result[1].status = "needs_review"
                  /\ active_jobs[j].result[1].invoice = task[j].orig_invoice[1]

\* C9: when a stage of a job raises, the job becomes failed with an error
\* text and an audit entry with stage 'error' for the job is in the log;
\* the only step the job takes after the raise is the except block, which
\* records no stage, and a failed job takes no further step.
C9_ErrorLogged(j) ==
    \E i \in 1..Len(audit_log) :
        audit_log[i].job_id = j /\ audit_log[i].stage = "error"

C9_Failed ==
    \A j \in Jobs :
        (task[j].pc = "done" /\ task[j].exc # "") =>
            /\ active_jobs[j].status = "failed"
            /\ active_jobs[j].error # <<>>
            /\ C9_ErrorLogged(j)

C9_NoLaterStage ==
    \A j \in Jobs :
        /\ active_jobs[j].status = "failed" =>
              (active_jobs'[j] = active_jobs[j] /\ task'[j] = task[j])
        /\ task[j].pc = "except" =>
              active_jobs'[j].stages_completed = active_jobs[j].stages_completed

C9_RaiseFailsJob == []C9_Failed /\ [][C9_NoLaterStage]_vars

C9_Witness ==
    \E j \in Jobs :
        /\ task[j].pc = "done"
        /\ task[j].exc = OcrError
        /\ active_jobs[j].status = "failed"
        /\ C9_ErrorLogged(j)

\* C10: a job whose document gives at least one token and a schema-valid
\* invoice ends completed, with a stored result that is auto_posted or
\* needs_review.
C10_ValidDocumentCompletes ==
    \A j \in Jobs :
        (task[j].pc = "done" /\ task[j].doc.tokens > 0 /\ task[j].doc.schema_valid) =>
            /\ active_jobs[j].status = "completed"
            /\ active_jobs[j].result # <<>>
            /\ active_jobs[j].result[1].status \in {"auto_posted", "needs_review"}

\* C11: the stages a job has recorded are always a prefix of ocr,
\* extraction, classification, validation, decision, then auto_post, or
\* llm_fallback with or without patch_apply, or nothing, then completed;
\* and current_stage is the last stage recorded.
C11_StageOrders ==
    { EarlyStages \o <<"decision">> \o mid \o <<"completed">> :
        mid \in { <<>>, <<"auto_post">>, <<"llm_fallback">>,
                  <<"llm_fallback", "patch_apply">> } }

C11_IsPrefix(s, t) == Len(s) <= Len(t) /\ SubSeq(t, 1, Len(s)) = s

C11_StagesInOrder ==
    \A j \in Jobs :
        /\ \E t \in C11_StageOrders :
              C11_IsPrefix(active_jobs[j].stages_completed, t)
        /\ active_jobs[j].stages_completed # <<>> =>
              active_jobs[j].current_stage
                 = active_jobs[j].stages_completed[Len(active_jobs[j].stages_completed)]

C11_Witness ==
    \E j \in Jobs :
        active_jobs[j].stages_completed
           = EarlyStages \o <<"decision", "llm_fallback", "patch_apply", "completed">>

\* C12: every stage a job has moved on from (every recorded stage but the
\* one it is in) has an audit entry for that job and stage in the log.
C12_Audited(j, stage) ==
    \E i \in 1..Len(audit_log) :
        audit_log[i].job_id = j /\ audit_log[i].stage = stage

C12_TransitionsAudited ==
    \A j \in Jobs :
        \A i \in 1..(Len(active_jobs[j].stages_completed) - 1) :
            C12_Audited(j, active_jobs[j].stages_completed[i])

(***************************************************************************)
(* AuditLogger.get_job_audit_trail: the lines of the log whose job_id is   *)
(* the one asked for, in file order.                                       *)
(***************************************************************************)
get_job_audit_trail_All(j) == audit_log

get_job_audit_trail(j) ==
    LET OfJob(e) == e.job_id = j
    IN SelectSeq(audit_log, OfJob)

\* C13: under every interleaving of the jobs the log only grows at its end,
\* and the trail of a job is exactly the entries that job wrote, in the
\* order it wrote them, with timestamps that do not decrease.
C13_Written(j) ==
    (IF task[j].doc.tokens > 0 /\ task[j].pc \in {"except", "done"}
        THEN <<"ocr">> ELSE <<>>)
    \o (IF task[j].pc = "done" THEN <<"error">> ELSE <<>>)

C13_TrailExact ==
    \A j \in Jobs :
        LET trail == get_job_audit_trail(j)
        IN /\ Len(trail) = Len(C13_Written(j))
           /\ \A i \in 1..Len(trail) :
                 /\ trail[i].job_id = j
                 /\ trail[i].stage = C13_Written(j)[i]
           /\ \A i \in 1..(Len(trail) - 1) :
                 trail[i].timestamp <= trail[i + 1].timestamp

C13_AppendOnly ==
    /\ Len(audit_log') >= Len(audit_log)
    /\ SubSeq(audit_log', 1, Len(audit_log)) = audit_log

C13_AuditTrailPerJob == []C13_TrailExact /\ [][C13_AppendOnly]_vars

C13_Witness ==
    \E j, k \in Jobs :
        /\ j # k
        /\ Len(audit_log) = 4
        /\ audit_log[1].job_id = j /\ audit_log[2].job_id = k
        /\ audit_log[3].job_id = j /\ audit_log[4].job_id = k
        /\ audit_log[1].timestamp < audit_log[4].timestamp
        /\ Len(get_job_audit_trail(j)) = 2

\* C14: a job its caller abandoned runs no stage after that and, when its
\* task has ended, has an audit entry with status cancelled.
C14_Cancelled(j) ==
    \E i \in 1..Len(audit_log) :
        audit_log[i].job_id = j /\ audit_log[i].status = "cancelled"

C14_NoStageAfterAbandon ==
    \A j \in Jobs :
        task[j].abandoned =>
            active_jobs'[j].stages_completed = active_jobs[j].stages_completed

C14_AbandonedIsCancelled ==
    /\ [](\A j \in Jobs :
            (task[j].abandoned /\ task[j].pc = "done") => C14_Cancelled(j))
    /\ [][C14_NoStageAfterAbandon]_vars

\* C15: when extraction finds no value for a required field, the field it
\* produces has a null value, confidence 0 and no evidence, a constructor
\* raises, and the job ends failed with the stages ocr and extraction only,
\* no invoice, no result and no 'extraction' entry in the log.
C15_Missing(ex) ==
    \E f \in ExtractedFields : ex[f].present /\ ex[f].isnull

C15_SchemaErrorFails ==
    \A j \in Jobs :
        (task[j].extracted # <<>> /\ C15_Missing(task[j].extracted[1])) =>
            /\ \A f \in ExtractedFields :
                  LET fv == task[j].extracted[1][f]
                  IN (fv.present /\ task[j].matches[1][f] = "none") =>
                        (fv.isnull /\ fv.confidence = 0 /\ fv.evidence = 0)
            /\ task[j].exc \in {SchemaErrorAmounts, SchemaErrorInvoice}
            /\ task[j].invoice = <<>>
            /\ active_jobs[j].stages_completed = <<"ocr", "extraction">>
            /\ active_jobs[j].result = <<>>
            /\ ~C12_Audited(j, "extraction")
            /\ task[j].pc = "done" =>
                  /\ active_jobs[j].status = "failed"
                  /\ active_jobs[j].error = <<task[j].exc>>

C15_Witness ==
    \E j \in Jobs :
        /\ task[j].pc = "done"
        /\ task[j].extracted # <<>>
        /\ task[j].extracted[1]["vendor"].isnull
        /\ ~task[j].extracted[1]["invoice_number"].isnull
        /\ ~task[j].extracted[1]["invoice_date"].isnull
        /\ active_jobs[j].status = "failed"

\* C16: an ingest request whose extension is not an allowed one is answered
\* with an error and no job id, and it leaves the job table, the tasks and
\* the audit log as they were; the jobs are exactly the accepted requests.
C16_Unsupported == {".exe", ".readme"}

C16_Accepted ==
    LET Ok(r) == r.status = 200 IN SelectSeq(responses, Ok)

C16_NoJobForRejected ==
    /\ \A i \in 1..Len(responses) :
          responses[i].ext \in C16_Unsupported =>
              (responses[i].status # 200 /\ responses[i].job_id = 0)
    /\ Len(active_jobs) = Len(C16_Accepted)
    /\ Len(task) = Len(C16_Accepted)

C16_RejectChangesNothing ==
    (/\ Len(responses') = Len(responses) + 1
     /\ responses'[Len(responses')].ext \in C16_Unsupported)
    => UNCHANGED <<active_jobs, task, audit_log>>

C16_UnsupportedRejected == []C16_NoJobForRejected /\ [][C16_RejectChangesNothing]_vars

C16_Witness ==
    /\ Len(responses) = 2
    /\ responses[1].ext = ".exe" /\ responses[1].status = 500
    /\ responses[2].status = 200
    /\ Len(active_jobs) = 1

\* C17: in the invoice of a completed job every field value has a
\* confidence between 0 and 1 and is either null or of confidence above 0.
C17_FieldValues(inv) ==
    {inv.invoice_number, inv.invoice_date, inv.due_date, inv.vendor.name,
     inv.amounts.subtotal, inv.amounts.tax_amount, inv.amounts.tax_rate,
     inv.amounts.discount, inv.amounts.shipping, inv.amounts.grand_total,
     inv.amounts.currency}
    \cup UNION { {inv.line_items[i].description, inv.line_items[i].quantity,
                  inv.line_items[i].unit_price, inv.line_items[i].tax_amount} :
                 i \in 1..Len(inv.line_items) }

C17_FieldValueOk(fv) ==
    fv.present =>
        /\ fv.confidence >= 0 /\ fv.confidence <= 100
        /\ (fv.value = Null \/ fv.confidence > 0)

C17_ConfidenceInvariant ==
    \A j \in Jobs :
        (active_jobs[j].status = "completed" /\ active_jobs[j].result # <<>>) =>
            \A fv \in C17_FieldValues(active_jobs[j].result[1].invoice) :
                C17_FieldValueOk(fv)

\* C18: the duplicate_hash of the invoice of every result is the digest of
\* that invoice's own vendor name, invoice number, invoice date and grand
\* total, so that two results have equal hashes exactly when these agree.
C18_KeyHash(inv) ==
    create_duplicate_hash(inv.vendor.name.value, inv.invoice_number.value,
                          inv.invoice_date.value, inv.amounts.grand_total.value)

C18_HashMatchesKey ==
    \A j \in Jobs :
        active_jobs[j].result # <<>> =>
            active_jobs[j].result[1].invoice.duplicate_hash
               = C18_KeyHash(active_jobs[j].result[1].invoice)

\* C19: when the rule report of an invoice passed, its grand total is within
\* the tolerance of subtotal + tax_amount + shipping - discount, an operand
\* that is missing counting as 0.
C19_Operand(f) == IF f.present /\ f.value.k = "num" THEN Scaled(f.value) ELSE 0

C19_Expected(inv) ==
    C19_Operand(inv.amounts.subtotal) + C19_Operand(inv.amounts.tax_amount)
    + C19_Operand(inv.amounts.shipping) - C19_Operand(inv.amounts.discount)

C19_PassedImpliesBalance ==
    \A j \in Jobs :
        (task[j].rule_report # <<>> /\ task[j].rule_report[1].passed) =>
            100 * Abs(C19_Operand(task[j].invoice[1].amounts.grand_total)
                      - C19_Expected(task[j].invoice[1]))
               <= arithmetic_tolerance_pct * Abs(C19_Expected(task[j].invoice[1]))

\* C20: the amount parser gives 1234.56 for "1,234.56" and for "1.234,56",
\* 1.56 for "1,56" and 1234 for "1,234".
\* The same number without trailing zeros behind the point.
RECURSIVE C20_Norm(_)
C20_Norm(v) ==
    IF v.dp > 0 /\ v.n % 10 = 0 THEN C20_Norm(Num(v.n \div 10, v.dp - 1)) ELSE v

C20_Expected(text) ==
    CASE text = <<"1", ",", "2", "3", "4", ".", "5", "6">> -> Num(123456, 2)
      [] text = <<"1", ".", "2", "3", "4", ",", "5", "6">> -> Num(123456, 2)
      [] text = <<"1", ",", "5", "6">> -> Num(156, 2)
      [] text = <<"1", ",", "2", "3", "4">> -> Num(1234, 0)
      [] OTHER -> Null

C20_ParseAmountExamples ==
    \A j \in Jobs :
        (task[j].total_text # <<>> /\ C20_Expected(task[j].total_text) # Null) =>
            /\ task[j].total_value # Null
            /\ C20_Norm(task[j].total_value)
                  = C20_Norm(C20_Expected(task[j].total_text))

\* C21: a job on a clean invoice (every required field found beside its
\* label from tokens of confidence up to 1.0, balancing amounts, no line
\* item) has a passed rule report and sufficient field confidences, is
\* decided auto_post, makes no LLM call and ends with a result auto_posted.
\* The best case is taken: both tokens at confidence 1.0, no distance.
C21_CleanJob(j) ==
    task[j].orig_invoice = <<ExtractClean(100, 100, 0)>>

C21_CleanAutoPosted ==
    \A j \in Jobs :
        C21_CleanJob(j) /\ task[j].pc \notin {"extraction", "decision", "except"} =>
            /\ task[j].rule_report # <<>> => task[j].rule_report[1].passed
            /\ task[j].decision # "" =>
                  /\ check_field_confidence(task[j].invoice[1])
                  /\ task[j].decision = "auto_post"
            /\ task[j].llm_calls = 0
            /\ HasResult(j) => task[j].result[1].status = "auto_posted"

\* C22: two extractions given the same tokens (the same matches, the same
\* text of the total, the same token confidences and distances) build the
\* same invoice, whatever the order and the times at which they run.
C22_SameTokens(j, k) ==
    /\ task[j].doc = task[k].doc
    /\ task[j].matches = task[k].matches
    /\ task[j].total_text = task[k].total_text
    /\ task[j].tokens = task[k].tokens

C22_ExtractDeterministic ==
    \A j, k \in Jobs :
        task[j].tokens # <<>> /\ task[k].tokens # <<>> /\ C22_SameTokens(j, k) =>
            /\ task[j].extracted = task[k].extracted
            /\ task[j].orig_invoice = task[k].orig_invoice

\* C23: after a replace patch (p, v) on an allowed path p (a required-field
\* path or the path of a failure of the rule report) that names a field,
\* the field at p of the patched invoice has the value v.
C23_FieldPaths ==
    {"/invoice_number", "/invoice_date", "/due_date", "/vendor/name",
     "/amounts/grand_total", "/amounts/subtotal", "/amounts/tax_amount",
     "/amounts/currency", "/amounts/discount", "/amounts/shipping"}

C23_Get(inv, path) ==
    CASE path = "/invoice_number" -> inv.invoice_number.value
      [] path = "/invoice_date" -> inv.invoice_date.value
      [] path = "/due_date" -> inv.due_date.value
      [] path = "/vendor/name" -> inv.vendor.name.value
      [] path = "/amounts/currency" -> inv.amounts.currency.value
      [] OTHER -> AmountField(inv, path_parts(path)[2]).value

C23_ReadBack ==
    \A j \in Jobs :
        (HasResult(j) /\ Len(task[j].llm_patch.items) = 1) =>
            LET patch == task[j].llm_patch.items[1]
            IN (/\ patch.op = "replace"
                /\ patch.path \in C23_FieldPaths
                /\ patch.path \in RequiredPaths
                      \cup FailurePaths(validate_invoice(task[j].orig_invoice[1])))
               => C23_Get(task[j].result[1].invoice, patch.path) = patch.value

\* C24: applying a patch list changes nothing of the invoice but the values
\* of the fields its replace patches name (the confidence and the evidence
\* of every field and every other field stay as they were); an add, a
\* replace of a path the code does not know and a replace that raises
\* change nothing, and the patches after them are applied and the job goes
\* on to its result.
C24_Blank(inv, paths) ==
    LET B(path, v) == IF path \in paths THEN Null ELSE v
    IN [inv EXCEPT
          !.invoice_number.value = B("/invoice_number", @),
          !.invoice_date.value = B("/invoice_date", @),
          !.due_date.value = B("/due_date", @),
          !.vendor.name.value = B("/vendor/name", @),
          !.amounts.grand_total.value = B("/amounts/grand_total", @),
          !.amounts.subtotal.value = B("/amounts/subtotal", @),
          !.amounts.tax_amount.value = B("/amounts/tax_amount", @),
          !.amounts.currency.value = B("/amounts/currency", @),
          !.amounts.discount.value = B("/amounts/discount", @),
          !.amounts.shipping.value = B("/amounts/shipping", @)]

C24_Inert(orig, patch) ==
    \/ patch.op # "replace"
    \/ patch.path \in {"/amounts", "/due_date"}
    \/ patch.path = "/amounts/subtotal" /\ ~orig.amounts.subtotal.present
    \/ patch.path = "/amounts/tax_amount" /\ ~orig.amounts.tax_amount.present

C24_Named(orig, ps) ==
    {ps[i].path : i \in {k \in 1..Len(ps) : ~C24_Inert(orig, ps[k])}}

C24_OnlyNamedValues ==
    \A j \in Jobs :
        (PatchTruthy(task[j].llm_patch) /\ task[j].pc # "llm_returned") =>
            LET orig == task[j].orig_invoice[1]
                ps == task[j].llm_patch.items
            IN /\ HasResult(j)
               /\ task[j].exc \in {"", AwaitLogResult}
               /\ C24_Blank(task[j].result[1].invoice, C24_Named(orig, ps))
                     = C24_Blank(orig, C24_Named(orig, ps))
               /\ task[j].result[1].invoice.amounts.grand_total.value
                     = C4_Last(ps, "/amounts/grand_total",
                               orig.amounts.grand_total.value)

\* A replace that raises is followed by one that is applied.
C24_Witness ==
    \E j \in Jobs :
        /\ HasResult(j)
        /\ Len(task[j].llm_patch.items) = 2
        /\ C24_Inert(task[j].orig_invoice[1], task[j].llm_patch.items[1])
        /\ task[j].llm_patch.items[1].op = "replace"
        /\ task[j].llm_patch.items[2].path = "/amounts/grand_total"
        /\ task[j].result[1].invoice.amounts.grand_total.value
              = task[j].llm_patch.items[2].value
        /\ task[j].result[1].invoice # task[j].orig_invoice[1]

\* C25: the rule report of an invoice without a subtotal holds no
\* arithmetic_balance failure, whatever its grand total, tax amount,
\* shipping and discount are.
C25_NoSubtotalNoFailure ==
    \A j \in Jobs :
        (task[j].rule_report # <<>>
         /\ ~task[j].invoice[1].amounts.subtotal.present) =>
            \A i \in 1..Len(task[j].rule_report[1].failures) :
                task[j].rule_report[1].failures[i].rule # "arithmetic_balance"

\* C26: category_ok is true exactly when every line item that has a
\* category has a category confidence of at least
\* category_confidence_threshold, the confidence 0 included; it is true for
\* an invoice without line items.
C26_EveryCategoryConfident(inv) ==
    \A i \in 1..Len(inv.line_items) :
        inv.line_items[i].category # ""
            => inv.line_items[i].category_confidence >= category_confidence_threshold

C26_CategoryOkExact ==
    \A j \in Jobs :
        task[j].category_ok # <<>> =>
            (task[j].category_ok[1] <=> C26_EveryCategoryConfident(task[j].invoice[1]))

\* C27: whatever the order of the extractions, an entry of the vendor layout
\* cache is written by the first extraction that sees the layout and is
\* neither changed nor removed afterwards; a document gets a vendor field
\* from the cache only when its own tokens did not give the field.
C27_FirstSeen(j) ==
    \A k \in 1..(j - 1) : task[k].vendor[1].vendor.layout_hash
                             # task[j].vendor[1].vendor.layout_hash

C27_CacheOk ==
    \A j \in Jobs :
        task[j].vendor # <<>> =>
            LET v == task[j].vendor[1]
                h == v.vendor.layout_hash
            IN /\ h \in DOMAIN vendor_cache
               /\ C27_FirstSeen(j) => vendor_cache[h] = v.vendor.zones
               /\ \A f \in VendorZones :
                     \/ v.vendor.zones[f] = v.own[f]
                     \/ ~v.own[f].present /\ v.vendor.zones[f] = vendor_cache[h][f]

C27_EntriesKept ==
    \A h \in DOMAIN vendor_cache :
        h \in DOMAIN vendor_cache' /\ vendor_cache'[h] = vendor_cache[h]

C28_Occurrences(tokens, t) == Cardinality({i \in 1..Len(tokens) : tokens[i] = t})

C28_Permutation(a, b) ==
    /\ Len(a) = Len(b)
    /\ \A t \in TokenSet : C28_Occurrences(a, t) = C28_Occurrences(b, t)

C28_PermutationSameHash ==
    \A j, k \in Jobs :
        (/\ task[j].vendor # <<>> /\ task[k].vendor # <<>>
         /\ C28_Permutation(task[j].top_tokens, task[k].top_tokens))
        => task[j].vendor[1].vendor.layout_hash = task[k].vendor[1].vendor.layout_hash

\* C29: the status of a job changes only from processing to completed or
\* from processing to failed: a completed job stays completed, a failed job
\* stays failed, and a job with a stored result is not failed and has no
\* error.
C29_StatusStep ==
    \A j \in Jobs :
        /\ active_jobs[j].status = "completed" => active_jobs'[j].status = "completed"
        /\ active_jobs[j].status = "failed" => active_jobs'[j].status = "failed"

C29_ResultNotFailed ==
    \A j \in Jobs :
        active_jobs[j].result # <<>> =>
            active_jobs[j].status # "failed" /\ active_jobs[j].error = <<>>

C29_StatusFinal == []C29_ResultNotFailed /\ [][C29_StatusStep]_vars

\* C30: in every state get_job_result gives a result exactly for the jobs
\* whose status is completed (a completed job has its result stored), and
\* for an id of no job both queries give nothing.
C30_QueriesAgree ==
    \A id \in JobIds :
        /\ get_job_result(active_jobs, id) # <<>>
              <=> (get_job_status(active_jobs, id) # <<>>
                   /\ get_job_status(active_jobs, id)[1].status = "completed")
        /\ id \notin Jobs =>
              get_job_status(active_jobs, id) = <<>>
              /\ get_job_result(active_jobs, id) = <<>>

\* A completed job whose result is returned, beside an id of no job.
C30_Witness ==
    \E j \in Jobs :
        /\ active_jobs[j].status = "completed"
        /\ get_job_result(active_jobs, j) = task[j].result
        /\ task[j].result # <<>>
        /\ \E id \in JobIds : id \notin Jobs
====
